---- MODULE Spec2Model ----
(***************************************************************************)
(* godot_macros (src/src/lib.rs): declarative macros over the gdext        *)
(* binding layer.  The model has three layers:                             *)
(*   1. the macro_rules matcher: an invocation's token trees are matched   *)
(*      against the arms of the macro in the order written; a fragment     *)
(*      ($x:ty, $x:expr, $x:ident) is tried only if the next token may     *)
(*      begin it, and a fragment parse that fails after it has begun is a  *)
(*      compile error of the whole invocation (no backtracking);           *)
(*   2. the transcribers: each arm's right-hand side as a call tree;       *)
(*   3. the evaluation of a call tree against the engine (receiver first,  *)
(*      then the arguments left to right, then the call), a panic          *)
(*      propagating outwards.                                              *)
(***************************************************************************)
EXTENDS Integers, Sequences, FiniteSets, TLC

VARIABLES nodes, connections, freed, last

vars == <<nodes, connections, freed, last>>

(***************************************************************************)
(* Bounds.                                                                 *)
(***************************************************************************)
\* longest node path argument, in tokens, that the invocations enumerate
MaxArgLen == 2

(***************************************************************************)
(* Tokens.  A token tree of an invocation is a raw token or an already     *)
(* parsed fragment (what $node_path is when connect! hands it to n!).      *)
(***************************************************************************)
Tok(t, v) == [t |-> t, v |-> v, sub |-> <<>>]
Lit(s) == Tok("lit", s)
Ident(s) == Tok("ident", s)
Punct(s) == Tok("punct", s)
Nt(frag, toks) == [t |-> "nt", v |-> frag, sub |-> toks]

Comma == Punct(",")
Amp == Punct("&")
LParen == Punct("(")
RParen == Punct(")")
Dot == Punct(".")

IsIdent(tok) == tok.t = "ident"
IsLit(tok) == tok.t = "lit"
Is(s, i, tok) == i <= Len(s) /\ s[i] = tok

(***************************************************************************)
(* Fragment parsers.  Each returns the position after the longest fragment *)
(* starting at i, or 0 when the parse fails after it has begun.            *)
(***************************************************************************)
\* the ")" that closes a parenthesized fragment ending before e
CloseParen(s, e) == IF e /= 0 /\ Is(s, e, RParen) THEN e + 1 ELSE 0

RECURSIVE TyEnd(_, _)
TyEnd(s, i) ==
    IF i > Len(s) THEN 0
    ELSE IF s[i] = Amp THEN TyEnd(s, i + 1)
    ELSE IF s[i] = LParen THEN
        IF Is(s, i + 1, RParen) THEN i + 2
        ELSE CloseParen(s, TyEnd(s, i + 1))
    ELSE IF IsIdent(s[i]) THEN
        \* a path segment, with parenthesized arguments when "(" follows
        IF Is(s, i + 1, LParen) THEN
            IF Is(s, i + 2, RParen) THEN i + 3
            ELSE CloseParen(s, TyEnd(s, i + 2))
        ELSE i + 1
    ELSE 0

RECURSIVE ExprEnd(_, _)
RECURSIVE UnaryEnd(_, _)
RECURSIVE PostfixEnd(_, _)

\* e(...)  e.name  e.name(...)  after a primary expression ending before j
PostfixEnd(s, j) ==
    IF j = 0 THEN 0
    ELSE IF Is(s, j, LParen) THEN
        IF Is(s, j + 1, RParen) THEN PostfixEnd(s, j + 2)
        ELSE PostfixEnd(s, CloseParen(s, ExprEnd(s, j + 1)))
    ELSE IF Is(s, j, Dot) THEN
        IF j + 1 <= Len(s) /\ IsIdent(s[j + 1]) THEN PostfixEnd(s, j + 2) ELSE 0
    ELSE j

PrimaryEnd(s, i) ==
    IF i > Len(s) THEN 0
    ELSE IF IsLit(s[i]) \/ IsIdent(s[i]) THEN i + 1
    ELSE IF s[i] = LParen THEN
        IF Is(s, i + 1, RParen) THEN i + 2
        ELSE CloseParen(s, ExprEnd(s, i + 1))
    ELSE 0

UnaryEnd(s, i) ==
    IF i > Len(s) THEN 0
    ELSE IF s[i] = Amp THEN UnaryEnd(s, i + 1)
    ELSE PostfixEnd(s, PrimaryEnd(s, i))

\* any number of binary "&" operands after a unary operand ending before u
BinaryEnd(s, u) ==
    IF u = 0 THEN 0
    ELSE IF Is(s, u, Amp) THEN ExprEnd(s, u + 1)
    ELSE u

ExprEnd(s, i) == BinaryEnd(s, UnaryEnd(s, i))

\* whether a token may begin the fragment (the matcher's test before parsing)
MayBegin(frag, tok) ==
    CASE frag = "ident" -> tok.t = "ident"
      [] frag = "expr"  -> \/ tok.t \in {"lit", "ident"}
                           \/ tok \in {Amp, LParen}
                           \/ tok.t = "nt" /\ tok.v = "expr"
      [] frag = "ty"    -> \/ tok.t = "ident"
                           \/ tok \in {Amp, LParen}
                           \/ tok.t = "nt" /\ tok.v = "ty"
      [] OTHER          -> FALSE

FragEnd(frag, s, i) ==
    IF s[i].t = "nt" THEN i + 1
    ELSE CASE frag = "ident" -> i + 1
           [] frag = "expr"  -> ExprEnd(s, i)
           [] frag = "ty"    -> TyEnd(s, i)
           [] OTHER          -> 0

\* the tokens a fragment captured
Captured(s, i, e) == IF s[i].t = "nt" THEN s[i].sub ELSE SubSeq(s, i, e - 1)

(***************************************************************************)
(* The matcher.  A pattern is a sequence of literal tokens and             *)
(* metavariables; bindings map a metavariable to the tokens it captured.   *)
(***************************************************************************)
MVar(name, frag) == [var |-> name, frag |-> frag]
MLit(tok) == [var |-> "", frag |-> tok.v]

NoBindings == [x \in {} |-> <<>>]

RECURSIVE MatchFrom(_, _, _, _, _)

\* the metavariable at pi, its fragment parsed up to e
Bind(pat, inp, pi, ii, b, e) ==
    IF e = 0 THEN [st |-> "error", b |-> b]
    ELSE MatchFrom(pat, inp, pi + 1, e, b @@ (pat[pi].var :> Captured(inp, ii, e)))

MatchFrom(pat, inp, pi, ii, b) ==
    IF pi > Len(pat) THEN
        IF ii > Len(inp) THEN [st |-> "ok", b |-> b] ELSE [st |-> "nomatch", b |-> b]
    ELSE IF pat[pi].var = "" THEN
        IF Is(inp, ii, Punct(pat[pi].frag))
        THEN MatchFrom(pat, inp, pi + 1, ii + 1, b)
        ELSE [st |-> "nomatch", b |-> b]
    ELSE IF ii > Len(inp) \/ ~MayBegin(pat[pi].frag, inp[ii]) THEN
        [st |-> "nomatch", b |-> b]
    ELSE Bind(pat, inp, pi, ii, b, FragEnd(pat[pi].frag, inp, ii))

MatchArm(pat, inp) == MatchFrom(pat, inp, 1, 1, NoBindings)

\* the first arm that matches; a fragment that fails to parse ends the search
RECURSIVE MatchArms(_, _, _)

\* arm k gave m: the next arm is tried only when k did not match
Tried(arms, inp, k, m) ==
    IF m.st = "nomatch" THEN MatchArms(arms, inp, k + 1)
    ELSE [st |-> m.st, arm |-> k, b |-> m.b]

MatchArms(arms, inp, k) ==
    IF k > Len(arms) THEN [st |-> "nomatch", arm |-> 0, b |-> NoBindings]
    ELSE Tried(arms, inp, k, MatchArm(arms[k], inp))

MacroMatch(arms, inp) == MatchArms(arms, inp, 1)

\* an argument list as the token trees of an invocation: a, b, c
RECURSIVE ArgList(_)
ArgList(args) ==
    IF Len(args) = 0 THEN <<>>
    ELSE IF Len(args) = 1 THEN args[1]
    ELSE args[1] \o <<Comma>> \o ArgList(Tail(args))

(***************************************************************************)
(* Call trees: what an arm transcribes to.                                 *)
(***************************************************************************)
\* receiver.m::<targs>(args)
Call(recv, m, targs, args) ==
    [k |-> "call", recv |-> recv, m |-> m, targs |-> targs, args |-> args]
\* the tokens of a captured fragment, or tokens written in the arm itself
Sub(frag, toks) == [k |-> "tokens", frag |-> frag, toks |-> toks]
\* a path written in the arm itself (Input)
Path(name) == [k |-> "path", name |-> name]
\* no expansion: the invocation did not compile
NoTree(why) == [k |-> "none", why |-> why]

NoTargs == <<>>
NoArgs == <<>>

(***************************************************************************)
(* n! and nm!                                                              *)
(***************************************************************************)
n_arms ==
    << <<MVar("self", "ident"), MLit(Comma), MVar("node_path", "expr")>>,
       <<MVar("self", "ident"), MLit(Comma), MVar("node_type", "ty"),
         MLit(Comma), MVar("node_path", "expr")>>,
       <<MVar("self", "ident"), MLit(Comma), MVar("node_path", "expr"),
         MLit(Comma), MVar("node_type", "ty")>> >>

n_body(arm, b) ==
    CASE arm = 1 ->
           Call(Call(Sub("ident", b.self), "base", NoTargs, NoArgs),
                "get_node_as", <<Ident("Node")>>, <<Sub("expr", b.node_path)>>)
      [] arm = 2 ->
           Call(Call(Sub("ident", b.self), "base", NoTargs, NoArgs),
                "get_node_as", b.node_type, <<Sub("expr", b.node_path)>>)
      [] arm = 3 ->
           Call(Call(Sub("ident", b.self), "base", NoTargs, NoArgs),
                "get_node_as", b.node_type, <<Sub("expr", b.node_path)>>)

nm_arms ==
    << <<MVar("self", "ident"), MLit(Comma), MVar("node_path", "expr")>>,
       <<MVar("self", "ident"), MLit(Comma), MVar("node_type", "ty"),
         MLit(Comma), MVar("node_path", "expr")>>,
       <<MVar("self", "ident"), MLit(Comma), MVar("node_path", "expr"),
         MLit(Comma), MVar("node_type", "ty")>> >>

\* nm! written as n! is: the lookup through base()
nm_body_shared(arm, b) == n_body(arm, b)

nm_body(arm, b) ==
    CASE arm = 1 ->
           Call(Call(Sub("ident", b.self), "base_mut", NoTargs, NoArgs),
                "get_node_as", <<Ident("Node")>>, <<Sub("expr", b.node_path)>>)
      [] arm = 2 ->
           Call(Call(Sub("ident", b.self), "base_mut", NoTargs, NoArgs),
                "get_node_as", b.node_type, <<Sub("expr", b.node_path)>>)
      [] arm = 3 ->
           Call(Call(Sub("ident", b.self), "base_mut", NoTargs, NoArgs),
                "get_node_as", b.node_type, <<Sub("expr", b.node_path)>>)

\* n!(...) written inside another macro's arm
n_transcribed(m) == IF m.st = "ok" THEN n_body(m.arm, m.b) ELSE NoTree(m.st)
n_nested(inp) == n_transcribed(MacroMatch(n_arms, inp))

(***************************************************************************)
(* connect!                                                                *)
(***************************************************************************)
connect_arms ==
    << <<MVar("self", "ident"), MLit(Comma), MVar("node_path", "expr"),
         MLit(Comma), MVar("signal", "expr"),
         MLit(Comma), MVar("callback_name", "expr")>>,
       <<MVar("self", "ident"), MLit(Comma), MVar("node_path_1", "expr"),
         MLit(Comma), MVar("signal", "expr"),
         MLit(Comma), MVar("node_path_2", "expr"),
         MLit(Comma), MVar("callback_name", "expr")>> >>

\* connect! binding the handler on self in both arms
connect_body_self(arm, b) ==
    Call(n_nested(b.self \o <<Comma,
                     Nt("expr", IF arm = 1 THEN b.node_path ELSE b.node_path_1)>>),
         "connect", NoTargs,
         << Call(Sub("expr", b.signal), "into", NoTargs, NoArgs),
            Call(Call(Sub("ident", b.self), "base", NoTargs, NoArgs),
                 "callable", NoTargs, <<Sub("expr", b.callback_name)>>) >>)

\* connect! with the two paths of the five-argument arm exchanged
connect_body_swapped(arm, b) ==
    CASE arm = 1 ->
           Call(n_nested(b.self \o <<Comma, Nt("expr", b.node_path)>>),
                "connect", NoTargs,
                << Call(Sub("expr", b.signal), "into", NoTargs, NoArgs),
                   Call(Call(Sub("ident", b.self), "base", NoTargs, NoArgs),
                        "callable", NoTargs, <<Sub("expr", b.callback_name)>>) >>)
      [] arm = 2 ->
           Call(n_nested(b.self \o <<Comma, Nt("expr", b.node_path_2)>>),
                "connect", NoTargs,
                << Call(Sub("expr", b.signal), "into", NoTargs, NoArgs),
                   Call(n_nested(b.self \o <<Comma, Nt("expr", b.node_path_1)>>),
                        "callable", NoTargs, <<Sub("expr", b.callback_name)>>) >>)

\* connect! connecting on self's own base object, without the lookup
connect_body_unlooked(arm, b) ==
    Call(Call(Sub("ident", b.self), "base", NoTargs, NoArgs),
         "connect", NoTargs,
         << Call(Sub("expr", b.signal), "into", NoTargs, NoArgs),
            Call(Call(Sub("ident", b.self), "base", NoTargs, NoArgs),
                 "callable", NoTargs, <<Sub("expr", b.callback_name)>>) >>)

connect_body(arm, b) ==
    CASE arm = 1 ->
           Call(n_nested(b.self \o <<Comma, Nt("expr", b.node_path)>>),
                "connect", NoTargs,
                << Call(Sub("expr", b.signal), "into", NoTargs, NoArgs),
                   Call(Call(Sub("ident", b.self), "base", NoTargs, NoArgs),
                        "callable", NoTargs, <<Sub("expr", b.callback_name)>>) >>)
      [] arm = 2 ->
           Call(n_nested(b.self \o <<Comma, Nt("expr", b.node_path_1)>>),
                "connect", NoTargs,
                << Call(Sub("expr", b.signal), "into", NoTargs, NoArgs),
                   Call(n_nested(b.self \o <<Comma, Nt("expr", b.node_path_2)>>),
                        "callable", NoTargs, <<Sub("expr", b.callback_name)>>) >>)

(***************************************************************************)
(* The input macros.                                                       *)
(***************************************************************************)
Singleton == Call(Path("Input"), "singleton", NoTargs, NoArgs)
Into(toks) == Call(Sub("expr", toks), "into", NoTargs, NoArgs)

any_press_arms == << <<>> >>
any_press_body(arm, b) == Call(Singleton, "is_anything_pressed", NoTargs, NoArgs)

key_press_arms == << <<MVar("keycode", "expr")>> >>
key_press_body(arm, b) ==
    Call(Singleton, "is_key_pressed", NoTargs, <<Sub("expr", b.keycode)>>)

key_press_phys_arms == << <<MVar("keycode", "expr")>> >>
key_press_phys_body(arm, b) ==
    Call(Singleton, "is_physical_key_pressed", NoTargs, <<Sub("expr", b.keycode)>>)

key_press_label_arms == << <<MVar("keycode", "expr")>> >>
key_press_label_body(arm, b) ==
    Call(Singleton, "is_key_label_pressed", NoTargs, <<Sub("expr", b.keycode)>>)

mouse_press_arms == << <<MVar("button", "expr")>> >>
mouse_press_body(arm, b) ==
    Call(Singleton, "is_mouse_button_pressed", NoTargs, <<Sub("expr", b.button)>>)

joy_press_arms == << <<MVar("device", "expr"), MLit(Comma), MVar("button", "expr")>> >>
joy_press_body(arm, b) ==
    Call(Singleton, "is_joy_button_pressed", NoTargs,
         <<Sub("expr", b.device), Sub("expr", b.button)>>)

act_press_arms == << <<MVar("action", "expr")>> >>
act_press_body(arm, b) ==
    Call(Singleton, "is_action_pressed", NoTargs, <<Into(b.action)>>)

act_press_down_arms == << <<MVar("action", "expr")>> >>
act_press_down_body(arm, b) ==
    Call(Singleton, "is_action_just_pressed", NoTargs, <<Into(b.action)>>)

act_press_up_arms == << <<MVar("action", "expr")>> >>
act_press_up_body(arm, b) ==
    Call(Singleton, "is_action_just_released", NoTargs, <<Into(b.action)>>)

act_str_arms == << <<MVar("action", "expr")>> >>
act_str_body(arm, b) ==
    Call(Singleton, "get_action_strength", NoTargs, <<Into(b.action)>>)

act_str_raw_arms == << <<MVar("action", "expr")>> >>
act_str_raw_body(arm, b) ==
    Call(Singleton, "get_action_raw_strength", NoTargs, <<Into(b.action)>>)

act_axis_arms ==
    << <<MVar("negative_action", "expr"), MLit(Comma), MVar("positive_action", "expr")>> >>
\* act_axis! with the positive action passed first
act_axis_body_swapped(arm, b) ==
    Call(Singleton, "get_axis", NoTargs,
         <<Into(b.positive_action), Into(b.negative_action)>>)

act_axis_body(arm, b) ==
    Call(Singleton, "get_axis", NoTargs,
         <<Into(b.negative_action), Into(b.positive_action)>>)

(***************************************************************************)
(* emit!, free!, reload!                                                   *)
(***************************************************************************)
EmptySlice == <<Amp, Punct("["), Punct("]")>>

NoTreeMessage == <<Lit("Node has no tree")>>

\* emit! emitting on the scene tree
emit_body_on_tree(arm, b) ==
    Call(Call(Call(Call(Sub("ident", b.self), "base_mut", NoTargs, NoArgs),
                   "get_tree", NoTargs, NoArgs),
              "expect", NoTargs, <<Sub("expr", NoTreeMessage)>>),
         "emit_signal", NoTargs, <<Into(b.signal), Sub("expr", EmptySlice)>>)

emit_arms == << <<MVar("self", "ident"), MLit(Comma), MVar("signal", "expr")>> >>
emit_body(arm, b) ==
    Call(Call(Sub("ident", b.self), "base_mut", NoTargs, NoArgs),
         "emit_signal", NoTargs, <<Into(b.signal), Sub("expr", EmptySlice)>>)

free_arms == << <<MVar("self", "ident")>> >>
free_body(arm, b) ==
    Call(Call(Sub("ident", b.self), "base_mut", NoTargs, NoArgs),
         "queue_free", NoTargs, NoArgs)

\* reload! with unwrap() where the arm writes expect("Node has no tree")
reload_body_unwrap(arm, b) ==
    Call(Call(Call(Call(Sub("ident", b.self), "base_mut", NoTargs, NoArgs),
                   "get_tree", NoTargs, NoArgs),
              "unwrap", NoTargs, NoArgs),
         "reload_current_scene", NoTargs, NoArgs)

reload_arms == << <<MVar("self", "ident")>> >>
reload_body(arm, b) ==
    Call(Call(Call(Call(Sub("ident", b.self), "base_mut", NoTargs, NoArgs),
                   "get_tree", NoTargs, NoArgs),
              "expect", NoTargs, <<Sub("expr", NoTreeMessage)>>),
         "reload_current_scene", NoTargs, NoArgs)

(***************************************************************************)
(* The macros by name.                                                     *)
(***************************************************************************)
InputMacros ==
    {"any_press", "key_press", "key_press_phys", "key_press_label", "mouse_press",
     "joy_press", "act_press", "act_press_down", "act_press_up", "act_str",
     "act_str_raw", "act_axis"}

Macros == {"n", "nm", "connect", "emit", "free", "reload"} \cup InputMacros

\* the arm of a macro selected by inp, its bindings and what it transcribes to
Transcribed(Body(_, _), m) ==
    [st |-> m.st, arm |-> m.arm, b |-> m.b,
     tree |-> IF m.st = "ok" THEN Body(m.arm, m.b) ELSE NoTree(m.st)]

ExpandWith(arms, Body(_, _), inp) == Transcribed(Body, MacroMatch(arms, inp))

\* macro!(inp)
Expand(macro, inp) ==
    CASE macro = "n" -> ExpandWith(n_arms, n_body, inp)
      [] macro = "nm" -> ExpandWith(nm_arms, nm_body, inp)
      [] macro = "connect" -> ExpandWith(connect_arms, connect_body, inp)
      [] macro = "any_press" -> ExpandWith(any_press_arms, any_press_body, inp)
      [] macro = "key_press" -> ExpandWith(key_press_arms, key_press_body, inp)
      [] macro = "key_press_phys" ->
            ExpandWith(key_press_phys_arms, key_press_phys_body, inp)
      [] macro = "key_press_label" ->
            ExpandWith(key_press_label_arms, key_press_label_body, inp)
      [] macro = "mouse_press" -> ExpandWith(mouse_press_arms, mouse_press_body, inp)
      [] macro = "joy_press" -> ExpandWith(joy_press_arms, joy_press_body, inp)
      [] macro = "act_press" -> ExpandWith(act_press_arms, act_press_body, inp)
      [] macro = "act_press_down" ->
            ExpandWith(act_press_down_arms, act_press_down_body, inp)
      [] macro = "act_press_up" -> ExpandWith(act_press_up_arms, act_press_up_body, inp)
      [] macro = "act_str" -> ExpandWith(act_str_arms, act_str_body, inp)
      [] macro = "act_str_raw" -> ExpandWith(act_str_raw_arms, act_str_raw_body, inp)
      [] macro = "act_axis" -> ExpandWith(act_axis_arms, act_axis_body, inp)
      [] macro = "emit" -> ExpandWith(emit_arms, emit_body, inp)
      [] macro = "free" -> ExpandWith(free_arms, free_body, inp)
      [] macro = "reload" -> ExpandWith(reload_arms, reload_body, inp)

(***************************************************************************)
(* Values and the scene the macros are invoked in.                         *)
(***************************************************************************)
V(vt, id, aux) == [vt |-> vt, id |-> id, aux |-> aux]
Undef == V("undef", "", "")
Unit == V("unit", "", "")

\* the nodes the scene may hold below self, and the class of each
NodeNames == {"Mob", "Ui"}
ClassOf == [n \in NodeNames |-> IF n = "Ui" THEN "Label" ELSE "Node"]
KnownTypes == {"Node", "Label"}
IsA(class, T) == T = "Node" \/ class = T

\* the signals an object declares
SignalsOf(id) == IF id = "self" THEN {"hit"} ELSE {"body_entered"}

\* the local variables in scope at the call site
Locals ==
    [v \in {"path", "up", "left", "a"} |->
        CASE v = "path" -> V("lit", "Ui", "")
          [] v = "up" -> V("Key", "UP", "")
          [] v = "left" -> V("MouseButton", "LEFT", "")
          [] v = "a" -> V("JoyButton", "A", "")]

IsLocal(tok) == tok.t = "ident" /\ tok.v \in DOMAIN Locals

\* the value of an expression's tokens, Undef when it does not type-check
RECURSIVE ExprValue(_)
ExprValue(toks) ==
    IF Len(toks) = 0 THEN Undef
    ELSE IF toks = EmptySlice THEN V("slice", "", "")
    ELSE IF Len(toks) = 1 THEN
        IF IsLit(toks[1]) THEN V("lit", toks[1].v, "")
        ELSE IF IsLocal(toks[1]) THEN Locals[toks[1].v]
        ELSE Undef
    ELSE IF toks[1] = Amp /\ Len(toks) = 2 /\ IsLocal(toks[2]) THEN Locals[toks[2].v]
    ELSE IF toks[1] = LParen /\ PrimaryEnd(toks, 1) = Len(toks) + 1 THEN
        ExprValue(SubSeq(toks, 2, Len(toks) - 1))
    ELSE IF Len(toks) = 5 /\ IsLocal(toks[1])
            /\ SubSeq(toks, 2, 5) = <<Dot, Ident("clone"), LParen, RParen>> THEN
        Locals[toks[1].v]
    ELSE Undef

TokensValue(e) ==
    IF e.frag = "ident"
    THEN IF e.toks = <<Ident("self")>> THEN V("Self", "self", "") ELSE Undef
    ELSE ExprValue(e.toks)

TypeName(targs) ==
    IF targs = <<>> THEN ""
    ELSE IF Len(targs) = 1 /\ IsIdent(targs[1]) /\ targs[1].v \in KnownTypes
    THEN targs[1].v
    ELSE "?"

\* name resolution and typing of an expansion: every substituted expression
\* has a value, every type names a class, a node path is a string
RECURSIVE WellTyped(_)
WellTyped(e) ==
    CASE e.k = "tokens" -> TokensValue(e) /= Undef
      [] e.k = "path" -> TRUE
      [] e.k = "call" ->
            /\ WellTyped(e.recv)
            /\ \A i \in 1..Len(e.args) : WellTyped(e.args[i])
            /\ TypeName(e.targs) /= "?"
            /\ e.m = "get_node_as" =>
                  /\ e.args[1].k = "tokens"
                  /\ TokensValue(e.args[1]).vt = "lit"
      [] OTHER -> FALSE

(***************************************************************************)
(* The wrapped calls.  kind: "engine" a call on an engine object,          *)
(* "accessor" obtaining the receiver (base, base_mut, Input::singleton),   *)
(* "constructor" building a value handed to the engine (callable),         *)
(* "std" a call of the standard library (into, expect).                    *)
(***************************************************************************)
Accessors == {"base", "base_mut", "singleton"}
Constructors == {"callable"}
StdCalls == {"into", "expect", "unwrap"}
KindOf(m) ==
    IF m \in Accessors THEN "accessor"
    ELSE IF m \in Constructors THEN "constructor"
    ELSE IF m \in StdCalls THEN "std"
    ELSE "engine"

BoolQueries ==
    {"is_anything_pressed", "is_key_pressed", "is_physical_key_pressed",
     "is_key_label_pressed", "is_mouse_button_pressed", "is_joy_button_pressed",
     "is_action_pressed", "is_action_just_pressed", "is_action_just_released"}
FloatQueries == {"get_action_strength", "get_action_raw_strength", "get_axis"}

Ok(val, w) == [st |-> "ok", val |-> val, w |-> w]
Panic(msg, by, w) == [st |-> "panic", val |-> V("panic", msg, by), w |-> w]

\* source.connect(signal, callable)
Connection(recv, args) ==
    [source |-> recv.id, signal |-> args[1].id,
     target |-> args[2].id, method |-> args[2].aux]

Apply(m, recv, T, args, w, env) ==
    CASE m = "base" -> Ok(V("Base", recv.id, "ref"), w)
      [] m = "base_mut" -> Ok(V("Base", recv.id, "mut"), w)
      [] m = "singleton" -> Ok(V("Gd", "Input", "Input"), w)
      [] m = "into" -> Ok(V("into", recv.id, ""), w)
      [] m = "get_node_as" ->
            IF args[1].id \in w.nodes /\ IsA(ClassOf[args[1].id], T)
            THEN Ok(V("Gd", args[1].id, T), w)
            ELSE Panic("node not found", "get_node_as", w)
      [] m = "callable" -> Ok(V("Callable", recv.id, args[1].id), w)
      [] m = "connect" ->
            IF /\ args[1].id \in SignalsOf(recv.id)
               /\ Connection(recv, args) \notin w.connections
            THEN Ok(V("Error", "OK", ""),
                    [w EXCEPT !.connections = @ \cup {Connection(recv, args)}])
            ELSE Ok(V("Error", "ERR_INVALID_PARAMETER", ""), w)
      [] m \in BoolQueries \cup FloatQueries -> Ok(env.answer, w)
      [] m = "emit_signal" ->
            IF args[1].id \in SignalsOf(recv.id)
            THEN Ok(V("Error", "OK", ""), w)
            ELSE Ok(V("Error", "ERR_UNAVAILABLE", ""), w)
      [] m = "queue_free" -> Ok(Unit, [w EXCEPT !.freed = TRUE])
      [] m = "get_tree" ->
            IF env.inTree THEN Ok(V("Some", "SceneTree", ""), w)
            ELSE Ok(V("None", "", ""), w)
      [] m = "expect" ->
            IF recv.vt = "Some" THEN Ok(V("Gd", recv.id, recv.id), w)
            ELSE Panic(args[1].id, "expect", w)
      [] m = "unwrap" ->
            IF recv.vt = "Some" THEN Ok(V("Gd", recv.id, recv.id), w)
            ELSE Panic("unwrap on a None value", "unwrap", w)
      [] m = "reload_current_scene" ->
            IF env.hasScene THEN Ok(V("Error", "OK", ""), w)
            ELSE Ok(V("Error", "ERR_UNCONFIGURED", ""), w)

Entry(m, recv, T, args, ret) ==
    [fn |-> m, kind |-> KindOf(m), on |-> recv, targs |-> T, args |-> args, ret |-> ret]

\* evaluation: the receiver, the arguments left to right, then the call
RECURSIVE Eval(_, _, _)
RECURSIVE EvalArgs(_, _, _, _)

\* the argument k evaluated to r, the arguments after it to rest
ArgsDone(r, rest) ==
    [st |-> rest.st, vals |-> <<r.val>> \o rest.vals,
     w |-> rest.w, trace |-> r.trace \o rest.trace]

ArgDone(args, k, env, r) ==
    IF r.st = "panic"
    THEN [st |-> "panic", vals |-> <<r.val>>, w |-> r.w, trace |-> r.trace]
    ELSE ArgsDone(r, EvalArgs(args, k + 1, r.w, env))

EvalArgs(args, k, w, env) ==
    IF k > Len(args) THEN [st |-> "ok", vals |-> <<>>, w |-> w, trace |-> <<>>]
    ELSE ArgDone(args, k, env, Eval(args[k], w, env))

\* the call itself, the receiver being r and the arguments a, answered c
Called(e, r, a, c) ==
    [st |-> c.st, val |-> c.val, w |-> c.w,
     trace |-> r.trace \o a.trace
               \o <<Entry(e.m, r.val, TypeName(e.targs), a.vals, c.val)>>]

ArgsEvaluated(e, env, r, a) ==
    IF a.st = "panic"
    THEN [st |-> "panic", val |-> a.vals[Len(a.vals)], w |-> a.w,
          trace |-> r.trace \o a.trace]
    ELSE Called(e, r, a, Apply(e.m, r.val, TypeName(e.targs), a.vals, a.w, env))

ReceiverEvaluated(e, env, r) ==
    IF r.st = "panic" THEN r
    ELSE ArgsEvaluated(e, env, r, EvalArgs(e.args, 1, r.w, env))

Eval(e, w, env) ==
    IF e.k = "tokens" THEN
        [st |-> "ok", val |-> TokensValue(e), w |-> w, trace |-> <<>>]
    ELSE IF e.k = "path" THEN
        [st |-> "ok", val |-> V("type", e.name, ""), w |-> w, trace |-> <<>>]
    ELSE ReceiverEvaluated(e, env, Eval(e.recv, w, env))

(***************************************************************************)
(* Invocations.                                                            *)
(***************************************************************************)
World == [nodes |-> nodes, connections |-> connections, freed |-> freed]

\* what the engine answers during one invocation
Env(answer, inTree, hasScene) ==
    [answer |-> answer, inTree |-> inTree, hasScene |-> hasScene]
QuietEnv == Env(Undef, TRUE, TRUE)

\* an expansion at the call site: type check, then evaluation
Evaluate(x, w, env) ==
    IF x.st = "ok" /\ WellTyped(x.tree)
    THEN Eval(x.tree, w, env)
    ELSE [st |-> "compile_error", val |-> Undef, w |-> w, trace |-> <<>>]

\* macro!(inp) at the call site
Run(macro, inp, w, env) == Evaluate(Expand(macro, inp), w, env)

\* the record kept of the latest invocation (what was written, what the
\* engine answered, how the invocation ended, the calls it made, the scene
\* before it) and the scene after it
Done(macro, inp, env, r) ==
    /\ last' = [macro |-> macro, inp |-> inp, env |-> env, outcome |-> r.st,
                val |-> r.val, trace |-> r.trace, pre |-> World]
    /\ nodes' = r.w.nodes
    /\ connections' = r.w.connections
    /\ freed' = r.w.freed

NoInvocation ==
    [macro |-> "none", inp |-> <<>>, env |-> QuietEnv, outcome |-> "none",
     val |-> Undef, trace |-> <<>>,
     pre |-> [nodes |-> {}, connections |-> {}, freed |-> FALSE]]

(***************************************************************************)
(* The arguments the invocations are drawn from.                           *)
(***************************************************************************)
Self == <<Ident("self")>>

PathAlphabet == {Lit("Mob"), Ident("path"), Amp, LParen, RParen, Dot}
TokSeqs(n) == UNION {[1..k -> PathAlphabet] : k \in 1..n}
IsExpr(s) == Len(s) > 0 /\ MayBegin("expr", s[1]) /\ ExprEnd(s, 1) = Len(s) + 1
IsType(s) == Len(s) > 0 /\ MayBegin("ty", s[1]) /\ TyEnd(s, 1) = Len(s) + 1

ClonedPath == <<Ident("path"), Dot, Ident("clone"), LParen, RParen>>
\* every expression of at most MaxArgLen tokens, and path.clone()
PathExprs == {s \in TokSeqs(MaxArgLen) : IsExpr(s)} \cup {ClonedPath}
NodeTypes == {<<Ident(T)>> : T \in KnownTypes}

LookupInputs ==
    {ArgList(<<Self, p>>) : p \in PathExprs}
    \cup {ArgList(<<Self, t, p>>) : t \in NodeTypes, p \in PathExprs}
    \cup {ArgList(<<Self, p, t>>) : p \in PathExprs, t \in NodeTypes}

ConnectSources == {<<Lit("Mob")>>}
ConnectTargets == {<<Lit("Ui")>>}
ConnectSignals == {<<Lit("body_entered")>>, <<Lit("nosuch")>>}
Callbacks == {<<Lit("on_body_entered")>>}

ConnectInputs ==
    {ArgList(<<Self, p, s, c>>) :
        p \in ConnectSources, s \in ConnectSignals, c \in Callbacks}
    \cup {ArgList(<<Self, p, s, q, c>>) :
        p \in ConnectSources, s \in ConnectSignals, q \in ConnectTargets,
        c \in Callbacks}

Keys == {<<Ident("up")>>}
Buttons == {<<Ident("left")>>}
Devices == {<<Lit("0")>>}
JoyButtons == {<<Ident("a")>>}
Actions == {<<Lit("move_left")>>, <<Lit("move_right")>>}
EmitSignals == {<<Lit("hit")>>, <<Lit("nosuch")>>}

BoolAnswers == {V("bool", "true", ""), V("bool", "false", "")}
FloatAnswers == {V("f32", "0", ""), V("f32", "1", "")}

JoyInputs == {ArgList(<<d, x>>) : d \in Devices, x \in JoyButtons}
AxisInputs == {ArgList(<<neg, pos>>) : neg \in Actions, pos \in Actions}
EmitInputs == {ArgList(<<Self, s>>) : s \in EmitSignals}

\* what the engine may answer during an invocation
BoolEnvs == {Env(ans, TRUE, TRUE) : ans \in BoolAnswers}
FloatEnvs == {Env(ans, TRUE, TRUE) : ans \in FloatAnswers}
TreeEnvs == {Env(Undef, inTree, hasScene) : inTree \in BOOLEAN, hasScene \in BOOLEAN}

(***************************************************************************)
(* The state machine: one action per macro.                                *)
(***************************************************************************)
Init ==
    /\ nodes \in SUBSET NodeNames
    /\ connections = {}
    /\ freed = FALSE
    /\ last = NoInvocation

\* what each invocation of a macro drawn from inputs, with the engine
\* answering as in envs, does in the current scene
Outcomes(arms, Body(_, _), inputs, envs) ==
    {[inp |-> i, env |-> e, r |-> Evaluate(ExpandWith(arms, Body, i), World, e)] :
        i \in inputs, e \in envs}

N ==
    \E o \in Outcomes(n_arms, n_body, LookupInputs, {QuietEnv}) :
        Done("n", o.inp, o.env, o.r)

NM ==
    \E o \in Outcomes(nm_arms, nm_body, LookupInputs, {QuietEnv}) :
        Done("nm", o.inp, o.env, o.r)

Connect ==
    \E o \in Outcomes(connect_arms, connect_body, ConnectInputs, {QuietEnv}) :
        Done("connect", o.inp, o.env, o.r)

AnyPress ==
    \E o \in Outcomes(any_press_arms, any_press_body, {<<>>}, BoolEnvs) :
        Done("any_press", o.inp, o.env, o.r)

KeyPress ==
    \E o \in Outcomes(key_press_arms, key_press_body, Keys, BoolEnvs) :
        Done("key_press", o.inp, o.env, o.r)

KeyPressPhys ==
    \E o \in Outcomes(key_press_phys_arms, key_press_phys_body, Keys, BoolEnvs) :
        Done("key_press_phys", o.inp, o.env, o.r)

KeyPressLabel ==
    \E o \in Outcomes(key_press_label_arms, key_press_label_body, Keys, BoolEnvs) :
        Done("key_press_label", o.inp, o.env, o.r)

MousePress ==
    \E o \in Outcomes(mouse_press_arms, mouse_press_body, Buttons, BoolEnvs) :
        Done("mouse_press", o.inp, o.env, o.r)

JoyPress ==
    \E o \in Outcomes(joy_press_arms, joy_press_body, JoyInputs, BoolEnvs) :
        Done("joy_press", o.inp, o.env, o.r)

ActPress ==
    \E o \in Outcomes(act_press_arms, act_press_body, Actions, BoolEnvs) :
        Done("act_press", o.inp, o.env, o.r)

ActPressDown ==
    \E o \in Outcomes(act_press_down_arms, act_press_down_body, Actions, BoolEnvs) :
        Done("act_press_down", o.inp, o.env, o.r)

ActPressUp ==
    \E o \in Outcomes(act_press_up_arms, act_press_up_body, Actions, BoolEnvs) :
        Done("act_press_up", o.inp, o.env, o.r)

ActStr ==
    \E o \in Outcomes(act_str_arms, act_str_body, Actions, FloatEnvs) :
        Done("act_str", o.inp, o.env, o.r)

ActStrRaw ==
    \E o \in Outcomes(act_str_raw_arms, act_str_raw_body, Actions, FloatEnvs) :
        Done("act_str_raw", o.inp, o.env, o.r)

ActAxis ==
    \E o \in Outcomes(act_axis_arms, act_axis_body, AxisInputs, FloatEnvs) :
        Done("act_axis", o.inp, o.env, o.r)

Emit ==
    \E o \in Outcomes(emit_arms, emit_body, EmitInputs, {QuietEnv}) :
        Done("emit", o.inp, o.env, o.r)

Free ==
    \E o \in Outcomes(free_arms, free_body, {Self}, {QuietEnv}) :
        Done("free", o.inp, o.env, o.r)

Reload ==
    \E o \in Outcomes(reload_arms, reload_body, {Self}, TreeEnvs) :
        Done("reload", o.inp, o.env, o.r)

Next ==
    \/ N
    \/ NM
    \/ Connect
    \/ AnyPress
    \/ KeyPress
    \/ KeyPressPhys
    \/ KeyPressLabel
    \/ MousePress
    \/ JoyPress
    \/ ActPress
    \/ ActPressDown
    \/ ActPressUp
    \/ ActStr
    \/ ActStrRaw
    \/ ActAxis
    \/ Emit
    \/ Free
    \/ Reload

Spec == Init /\ [][Next]_vars

(***************************************************************************)
(* Reading the record of the latest invocation.                            *)
(***************************************************************************)
Invoked == last.macro \in Macros

\* the arguments of an invocation, split at the commas
RECURSIVE SplitFrom(_, _, _)
SplitFrom(inp, i, cur) ==
    IF i > Len(inp) THEN <<cur>>
    ELSE IF inp[i] = Comma THEN <<cur>> \o SplitFrom(inp, i + 1, <<>>)
    ELSE SplitFrom(inp, i + 1, Append(cur, inp[i]))
SplitArgs(inp) == IF Len(inp) = 0 THEN <<>> ELSE SplitFrom(inp, 1, <<>>)

IsEngine(e) == e.kind = "engine"
EngineEntries(trace) == SelectSeq(trace, IsEngine)

\* the engine calls an expansion contains
RECURSIVE EngineCalls(_)
RECURSIVE EngineCallsIn(_, _)
EngineCallsIn(args, k) ==
    IF k > Len(args) THEN 0 ELSE EngineCalls(args[k]) + EngineCallsIn(args, k + 1)
EngineCalls(e) ==
    IF e.k /= "call" THEN 0
    ELSE (IF KindOf(e.m) = "engine" THEN 1 ELSE 0)
         + EngineCalls(e.recv) + EngineCallsIn(e.args, 1)

\* an expansion made of calls and substituted tokens only
RECURSIVE OnlyCalls(_)
OnlyCalls(e) ==
    CASE e.k = "call" ->
            OnlyCalls(e.recv) /\ \A i \in 1..Len(e.args) : OnlyCalls(e.args[i])
      [] e.k \in {"tokens", "path"} -> TRUE
      [] OTHER -> FALSE

\* an expansion with base() in place of base_mut()
RECURSIVE Shared(_)
Shared(e) ==
    IF e.k /= "call" THEN e
    ELSE [e EXCEPT !.m = IF @ = "base_mut" THEN "base" ELSE @,
                   !.recv = Shared(e.recv),
                   !.args = [i \in 1..Len(e.args) |-> Shared(e.args[i])]]

SharedVal(v) == IF v.vt = "Base" THEN V("Base", v.id, "ref") ELSE v
SharedEntry(e) ==
    [e EXCEPT !.fn = IF @ = "base_mut" THEN "base" ELSE @,
              !.on = SharedVal(@), !.ret = SharedVal(@)]
SharedTrace(t) == [i \in 1..Len(t) |-> SharedEntry(t[i])]

(***************************************************************************)
(* Claims.                                                                 *)
(***************************************************************************)

\* C1: for n! and nm!, for every node path expression P and node type T, the
\* invocation (self, P, T) selects an arm that binds P as the path and T as
\* the type, and expands to the same call as (self, T, P).
C1_EitherOrder ==
    \A p \in PathExprs, t \in NodeTypes :
        (last.macro \in {"n", "nm"} /\ last.inp = ArgList(<<Self, p, t>>)) =>
            LET x == Expand(last.macro, last.inp)
                y == Expand(last.macro, ArgList(<<Self, t, p>>))
            IN  /\ x.st = "ok"
                /\ y.st = "ok"
                /\ x.b.node_path = p
                /\ x.b.node_type = t
                /\ x.tree = y.tree

\* C2: n!(self, P) and nm!(self, P) look the node up as Node, as the
\* three-argument form with T = Node does; for every argument list n! and
\* nm! select the same arm with the same bindings and make the same calls
\* with the same result, n! through base() only and nm! through base_mut()
\* only.
C2_DefaultNodeAndAccess ==
    last.macro \in {"n", "nm"} =>
        LET xn == Expand("n", last.inp)
            xm == Expand("nm", last.inp)
            rn == Run("n", last.inp, last.pre, last.env)
            rm == Run("nm", last.inp, last.pre, last.env)
            mine == IF last.macro = "n" THEN rn ELSE rm
            args == SplitArgs(last.inp)
        IN  /\ xn.st = xm.st /\ xn.arm = xm.arm /\ xn.b = xm.b
            /\ xn.st = "ok" => xn.tree = Shared(xm.tree) /\ xn.tree /= xm.tree
            /\ rn.st = rm.st /\ rn.val = rm.val /\ rn.w = rm.w
            /\ rn.trace = SharedTrace(rm.trace)
            /\ \A i \in 1..Len(rn.trace) :
                  rn.trace[i].kind = "accessor" => rn.trace[i].fn = "base"
            /\ \A i \in 1..Len(rm.trace) :
                  rm.trace[i].kind = "accessor" => rm.trace[i].fn = "base_mut"
            /\ last.outcome = mine.st /\ last.val = mine.val /\ last.trace = mine.trace
            /\ Len(args) = 2 =>
                  LET three == ArgList(<<args[1], <<Ident("Node")>>, args[2]>>)
                      x == Expand(last.macro, last.inp)
                      y == Expand(last.macro, three)
                      ry == Run(last.macro, three, last.pre, last.env)
                  IN  /\ x.st = "ok" /\ y.st = "ok"
                      /\ x.tree = y.tree
                      /\ last.outcome = ry.st /\ last.val = ry.val
                      /\ last.trace = ry.trace
                      /\ last.outcome = "ok" => last.val.aux = "Node"

\* C2 witness: nm!(self, "Mob") found the node Mob as a Node
C2_Witness ==
    /\ last.macro = "nm"
    /\ last.inp = ArgList(<<Self, <<Lit("Mob")>> >>)
    /\ last.outcome = "ok"
    /\ last.val = V("Gd", "Mob", "Node")

\* C1 case reached: n!(self, path, Label), a path written as an identifier
\* before the type
C1_Reached ==
    /\ last.macro = "n"
    /\ last.inp = ArgList(<<Self, <<Ident("path")>>, <<Ident("Label")>> >>)

(***************************************************************************)
(* connect!                                                                *)
(***************************************************************************)
Args == SplitArgs(last.inp)
Engine == EngineEntries(last.trace)
SceneUnchanged ==
    /\ nodes = last.pre.nodes
    /\ connections = last.pre.connections
    /\ freed = last.pre.freed

\* the node a path argument names
NodeAt(toks) == ExprValue(toks).id
Found(toks) == NodeAt(toks) \in last.pre.nodes

\* the lookup n!(self, P) as it is transcribed and as it is recorded
DefaultLookup(p) ==
    Call(Call(Sub("ident", Self), "base", NoTargs, NoArgs),
         "get_node_as", <<Ident("Node")>>, <<Sub("expr", p)>>)
IsLookupOf(entry, p) ==
    /\ entry.fn = "get_node_as"
    /\ entry.on = V("Base", "self", "ref")
    /\ entry.targs = "Node"
    /\ entry.args = <<ExprValue(p)>>
    /\ entry.ret = IF Found(p) THEN V("Gd", NodeAt(p), "Node")
                   ELSE V("panic", "node not found", "get_node_as")

\* C3: connect! connects the signal on the node found at the first path; with
\* four arguments the handler is the callable C on self, with five arguments
\* the callable C on the node found at P2; the arm is the one with as many
\* metavariables as there are arguments, whatever expressions the paths are;
\* each lookup is the call n!(self, P) transcribes to, with the type Node.
C3_ConnectHandler ==
    last.macro = "connect" =>
        /\ Len(Args) \in {4, 5}
        /\ \A p \in PathExprs, q \in PathExprs :
              /\ MacroMatch(connect_arms, ArgList(<<Self, p, Args[3], q>>)).st = "ok"
              /\ MacroMatch(connect_arms, ArgList(<<Self, p, Args[3], q>>)).arm = 1
              /\ MacroMatch(connect_arms, ArgList(<<Self, p, Args[3], q>>)).b.node_path = p
              /\ MacroMatch(connect_arms, ArgList(<<Self, p, Args[3], q, q>>)).st = "ok"
              /\ MacroMatch(connect_arms, ArgList(<<Self, p, Args[3], q, q>>)).arm = 2
              /\ MacroMatch(connect_arms,
                            ArgList(<<Self, p, Args[3], q, q>>)).b.node_path_1 = p
              /\ MacroMatch(connect_arms,
                            ArgList(<<Self, p, Args[3], q, q>>)).b.node_path_2 = q
        /\ Expand("connect", last.inp).st = "ok"
        /\ Expand("connect", last.inp).arm = Len(Args) - 3
        /\ Expand("connect", last.inp).tree.recv = DefaultLookup(Args[2])
        /\ Expand("connect", last.inp).tree.recv = Expand("n", ArgList(<<Self, Args[2]>>)).tree
        /\ Len(Args) = 5 =>
              /\ Expand("connect", last.inp).tree.args[2].recv = DefaultLookup(Args[4])
              /\ Expand("connect", last.inp).tree.args[2].recv
                    = Expand("n", ArgList(<<Self, Args[4]>>)).tree
        /\ last.outcome = "ok" =>
              /\ Engine[Len(Engine)].fn = "connect"
              /\ Engine[Len(Engine)].on = V("Gd", NodeAt(Args[2]), "Node")
              /\ Engine[Len(Engine)].args =
                    << V("into", NodeAt(Args[3]), ""),
                       V("Callable",
                         IF Len(Args) = 4 THEN "self" ELSE NodeAt(Args[4]),
                         NodeAt(Args[Len(Args)])) >>
              /\ \A c \in connections \ last.pre.connections :
                    /\ c.source = NodeAt(Args[2])
                    /\ c.signal = NodeAt(Args[3])
                    /\ c.target = IF Len(Args) = 4 THEN "self" ELSE NodeAt(Args[4])
                    /\ c.method = NodeAt(Args[Len(Args)])

\* C3 witness: a five-argument connect! bound the handler on the node Ui
C3_Witness ==
    /\ last.macro = "connect"
    /\ Len(Args) = 5
    /\ last.outcome = "ok"
    /\ [source |-> "Mob", signal |-> "body_entered", target |-> "Ui",
        method |-> "on_body_entered"] \in connections \ last.pre.connections

\* C4: in connect! a failed lookup panics and the connections stay as they
\* were; the node at P1 is looked up first, the node at P2 second and only
\* when P1 was found; connect is called last, after every lookup succeeded.
C4_LookupFailureAborts ==
    last.macro = "connect" =>
        /\ Len(Engine) >= 1
        /\ IsLookupOf(Engine[1], Args[2])
        /\ ~Found(Args[2]) =>
              /\ last.outcome = "panic"
              /\ last.val = V("panic", "node not found", "get_node_as")
              /\ Len(Engine) = 1
              /\ SceneUnchanged
        /\ (Len(Args) = 5 /\ Found(Args[2])) =>
              /\ Len(Engine) >= 2
              /\ IsLookupOf(Engine[2], Args[4])
              /\ ~Found(Args[4]) =>
                    /\ last.outcome = "panic"
                    /\ last.val = V("panic", "node not found", "get_node_as")
                    /\ Len(Engine) = 2
                    /\ SceneUnchanged
        /\ \A i \in 1..Len(Engine) :
              Engine[i].fn = "connect" =>
                  /\ i = Len(Engine)
                  /\ Found(Args[2])
                  /\ Len(Args) = 5 => Found(Args[4])
                  /\ Cardinality({j \in 1..(i - 1) : Engine[j].fn = "get_node_as"})
                        = Len(Args) - 3
        /\ last.outcome = "panic" => SceneUnchanged
        /\ (Found(Args[2]) /\ (Len(Args) = 5 => Found(Args[4]))) =>
              /\ last.outcome = "ok"
              /\ Engine[Len(Engine)].fn = "connect"

\* C4 witness: connect!(self, "Mob", S, "Ui", C) with Mob in the scene and Ui
\* not: the lookup of P2 panicked after the lookup of P1 succeeded
C4_Witness ==
    /\ last.macro = "connect"
    /\ Len(Args) = 5
    /\ Found(Args[2])
    /\ ~Found(Args[4])
    /\ last.outcome = "panic"
    /\ Len(Engine) = 2

(***************************************************************************)
(* The input macros.                                                       *)
(***************************************************************************)
\* the query each input macro is documented to make
DocumentedQuery(macro) ==
    CASE macro = "any_press" -> "is_anything_pressed"
      [] macro = "key_press" -> "is_key_pressed"
      [] macro = "key_press_phys" -> "is_physical_key_pressed"
      [] macro = "key_press_label" -> "is_key_label_pressed"
      [] macro = "mouse_press" -> "is_mouse_button_pressed"
      [] macro = "joy_press" -> "is_joy_button_pressed"
      [] macro = "act_press" -> "is_action_pressed"
      [] macro = "act_press_down" -> "is_action_just_pressed"
      [] macro = "act_press_up" -> "is_action_just_released"
      [] macro = "act_str" -> "get_action_strength"
      [] macro = "act_str_raw" -> "get_action_raw_strength"
      [] macro = "act_axis" -> "get_axis"

\* the macros whose arguments are action names, converted with into()
ActionMacros ==
    {"act_press", "act_press_down", "act_press_up", "act_str", "act_str_raw",
     "act_axis"}

\* C5: an input macro makes exactly the documented query, once, on the input
\* singleton, with the arguments of the invocation in the order written
\* (action names converted with into()), returns what the query answered
\* and changes nothing in the scene.
C5_InputQueries ==
    last.macro \in InputMacros =>
        /\ last.outcome = "ok"
        /\ Len(Engine) = 1
        /\ Engine[1].fn = DocumentedQuery(last.macro)
        /\ Engine[1].on = V("Gd", "Input", "Input")
        /\ Engine[1].args =
              [i \in 1..Len(Args) |->
                  IF last.macro \in ActionMacros
                  THEN V("into", NodeAt(Args[i]), "")
                  ELSE ExprValue(Args[i])]
        /\ Engine[1].ret = last.env.answer
        /\ last.val = last.env.answer
        /\ \A i \in 1..Len(last.trace) :
              last.trace[i].kind = "accessor" => last.trace[i].fn = "singleton"
        /\ SceneUnchanged

\* C5 witness: act_axis!("move_left", "move_right") answered 1
C5_Witness ==
    /\ last.macro = "act_axis"
    /\ last.inp = ArgList(<< <<Lit("move_left")>>, <<Lit("move_right")>> >>)
    /\ last.outcome = "ok"
    /\ last.val = V("f32", "1", "")

(***************************************************************************)
(* reload! and failures.                                                   *)
(***************************************************************************)
\* C6: every reload!(self) in which the scene is not reloaded (the node has
\* no tree, or reload_current_scene reports a failure) ends in a panic.
C6_ReloadPanics ==
    (last.macro = "reload" /\ ~(last.env.inTree /\ last.env.hasScene)) =>
        last.outcome = "panic"

\* C6 case reached: reload!(self) on a node in a tree that has no current
\* scene
C6_Reached ==
    /\ last.macro = "reload"
    /\ last.env.inTree
    /\ ~last.env.hasScene

IsFailure(v) == v.vt = "Error" /\ v.id /= "OK"

\* every engine call made is recorded once: nothing is called again after a
\* failure
NoRetry ==
    \A i \in 1..Len(Engine) :
        (Engine[i].ret.vt = "panic" \/ IsFailure(Engine[i].ret)) => i = Len(Engine)

\* a failure value an engine call returned is the value of the invocation
PassedThrough ==
    \A i \in 1..Len(Engine) :
        IsFailure(Engine[i].ret) => (last.outcome = "ok" /\ last.val = Engine[i].ret)

\* C7 as stated: every abort of an invocation is one raised by a wrapped
\* engine call, every failure value an engine call returns is the result of
\* the invocation, and no call is made again.
C7_NoOwnFailure ==
    Invoked =>
        /\ last.outcome \in {"ok", "panic", "compile_error"}
        /\ last.outcome = "panic" =>
              /\ KindOf(last.val.aux) = "engine"
              /\ Len(Engine) >= 1
              /\ Engine[Len(Engine)].ret = last.val
        /\ PassedThrough
        /\ NoRetry

\* C7 amended: as C7, except that reload! aborts on its own, with the message
\* "Node has no tree", exactly when get_tree() returned None; every other
\* abort is raised by an engine call.
C7_OnlyReloadAddsFailure ==
    Invoked =>
        /\ last.outcome \in {"ok", "panic", "compile_error"}
        /\ (last.outcome = "panic" /\ KindOf(last.val.aux) /= "engine") =>
              /\ last.macro = "reload"
              /\ ~last.env.inTree
              /\ last.val = V("panic", "Node has no tree", "expect")
              /\ Len(Engine) = 1
              /\ Engine[1].fn = "get_tree"
              /\ Engine[1].ret = V("None", "", "")
        /\ (last.outcome = "panic" /\ KindOf(last.val.aux) = "engine") =>
              /\ Len(Engine) >= 1
              /\ Engine[Len(Engine)].ret = last.val
        /\ (last.macro = "reload" /\ ~last.env.inTree) => last.outcome = "panic"
        /\ PassedThrough
        /\ NoRetry

\* C7 witness: reload!(self) on a node outside a tree panicked in expect
C7_Witness ==
    /\ last.macro = "reload"
    /\ ~last.env.inTree
    /\ last.outcome = "panic"
    /\ last.val.aux = "expect"

\* C7 witness of a failure passed through: emit!(self, "nosuch") returned the
\* failure emit_signal reported
C7_FailureReturned ==
    /\ last.macro = "emit"
    /\ last.outcome = "ok"
    /\ IsFailure(last.val)

(***************************************************************************)
(* The size of the expansions.                                             *)
(***************************************************************************)
\* C8 as stated: the expansion of every macro, in every arm, makes at most
\* two engine calls and is made of calls and substituted arguments only.
C8_AtMostTwoCalls ==
    (Invoked /\ Expand(last.macro, last.inp).st = "ok") =>
        /\ EngineCalls(Expand(last.macro, last.inp).tree) <= 2
        /\ OnlyCalls(Expand(last.macro, last.inp).tree)

\* C8 amended: every macro makes one engine call, except reload! (two:
\* get_tree, reload_current_scene) and connect! (two with four arguments:
\* lookup, connect; three with five arguments: two lookups, connect).
\* Receivers obtained through base(), base_mut() and Input::singleton(), the
\* construction of the callable and the conversions into() and expect() are
\* not counted.  Every expansion is made of calls and substituted arguments
\* only, and an invocation makes each call of its expansion at most once.
C8_CallsPerMacro ==
    (Invoked /\ Expand(last.macro, last.inp).st = "ok") =>
        /\ EngineCalls(Expand(last.macro, last.inp).tree) =
              CASE last.macro = "connect" -> Len(Args) - 2
                [] last.macro = "reload" -> 2
                [] OTHER -> 1
        /\ OnlyCalls(Expand(last.macro, last.inp).tree)
        /\ last.outcome /= "compile_error" =>
              Len(Engine) <= EngineCalls(Expand(last.macro, last.inp).tree)
        /\ last.outcome = "ok" =>
              Len(Engine) = EngineCalls(Expand(last.macro, last.inp).tree)

\* C8 witness: a five-argument connect! made its three engine calls
C8_Witness ==
    /\ last.macro = "connect"
    /\ Len(Args) = 5
    /\ last.outcome = "ok"
    /\ Len(Engine) = 3

(***************************************************************************)
(* emit! and free!                                                         *)
(***************************************************************************)
\* C9: emit!(self, S) makes one engine call, emit_signal on self's base
\* object with the signal S and an empty argument slice, and leaves the
\* scene as it was; free!(self) makes one engine call, queue_free on self's
\* base object, after which self is queued for freeing and the nodes and the
\* connections are as they were; neither calls anything on another object.
C9_EmitAndFreeOnSelf ==
    /\ last.macro = "emit" =>
          /\ last.outcome = "ok"
          /\ Len(Engine) = 1
          /\ Engine[1].fn = "emit_signal"
          /\ Engine[1].on = V("Base", "self", "mut")
          /\ Engine[1].args = <<V("into", NodeAt(Args[2]), ""), V("slice", "", "")>>
          /\ last.val = Engine[1].ret
          /\ SceneUnchanged
    /\ last.macro = "free" =>
          /\ last.outcome = "ok"
          /\ Len(Engine) = 1
          /\ Engine[1].fn = "queue_free"
          /\ Engine[1].on = V("Base", "self", "mut")
          /\ Engine[1].args = <<>>
          /\ freed
          /\ nodes = last.pre.nodes
          /\ connections = last.pre.connections
    /\ last.macro \in {"emit", "free"} =>
          \A i \in 1..Len(last.trace) :
              last.trace[i].kind /= "std" => last.trace[i].on.id = "self"

\* C9 witness: emit!(self, "hit") emitted on a node already queued for freeing
C9_Witness ==
    /\ last.macro = "emit"
    /\ last.inp = ArgList(<<Self, <<Lit("hit")>> >>)
    /\ last.outcome = "ok"
    /\ last.val = V("Error", "OK", "")
    /\ freed

====
